---- MODULE Spec2Model ----
\* Caption acquisition pipeline of src/app.py: one call of the /download route,
\* i.e. download_subtitles (the attempt loop around the catalog probe), the
\* language ladder of get_subtitles_with_priority, the format choice and fetch
\* of download_and_process_subs, and the cleaning of clean_any_content.
EXTENDS Integers, Sequences, FiniteSets, TLC

\* ---------------------------------------------------------------- bounds
\* Largest number of caption tracks (language x provenance) of a video.
MaxTracks == 2
\* Largest number of entries of one track's list in the format choice.
MaxEntries == 3
\* Largest number of fragments of a structured document, and of lines of a
\* line-oriented one, handed to a single application of clean_any_content.
MaxFrags == 3
MaxLines == 4
\* Largest number of words of a title handed to the language classifier.
MaxWords == 2

\* ------------------------------------------------------ program constants
max_retries == 2
MinLen == 50

\* Python's None where the value is otherwise a string.
None == "<None>"

\* ------------------------------------------------------------- documents
\* A caption document as urlopen(...).read().decode() delivers it. TLC has no
\* string library, so a document carries the three views the code takes of
\* it: `lines` is content.split('\n'), `brace` is
\* content.strip().startswith('{'), and `json` is what json.loads makes of it
\* (valid = FALSE when json.loads or the traversal raises; events = data['events'], each event
\* the list of the 'utf8' values of its 'segs').
TimeLine == "00:00:01,000 --> 00:00:04,000"
L24 == "abcdefghijklmnopqrstuvwx"
L25 == "abcdefghijklmnopqrstuvwxy"

EmptyDoc == [brace |-> FALSE, valid |-> FALSE, events |-> <<>>, lines |-> <<"">>]
SrtShort ==
  [brace |-> FALSE, valid |-> FALSE, events |-> <<>>,
   lines |-> <<"1", TimeLine, L25, "", "2", TimeLine, L24, "">>]
SrtOk ==
  [brace |-> FALSE, valid |-> FALSE, events |-> <<>>,
   lines |-> <<"1", TimeLine, L25, "", "2", TimeLine, "<i>" \o L25 \o "</i>", "">>]
Json3Short ==
  [brace |-> TRUE, valid |-> TRUE, events |-> << <<L25, "[Music]">>, <<L24>> >>,
   lines |-> <<"{json3-short}">>]
Json3Ok ==
  [brace |-> TRUE, valid |-> TRUE, events |-> << <<L25, "[Music]">>, <<" ", L25>> >>,
   lines |-> <<"{json3-ok}">>]
Garbage ==
  [brace |-> TRUE, valid |-> FALSE, events |-> <<>>,
   lines |-> <<"{" \o L25 \o L25>>]
\* A json3 document one of whose 'utf8' values ends with the escape \ud800:
\* json.loads makes a lone surrogate of it, written here as its code point.
Json3Surrogate ==
  [brace |-> TRUE, valid |-> TRUE, events |-> << <<L25>>, <<L25 \o "U+D800">> >>,
   lines |-> <<"{json3-surrogate}">>]

\* Malformed bodies: a short one, a JSON document whose events have the wrong
\* shape (the traversal raises), and an error page that is no JSON at all.
GarbageShort ==
  [brace |-> TRUE, valid |-> FALSE, events |-> <<>>, lines |-> <<"{" \o L25>>]
WrongShape ==
  [brace |-> TRUE, valid |-> FALSE, events |-> <<>>,
   lines |-> <<"{\"events\": 5, \"pens\": \"" \o L25 \o L25 \o "\"}">>]
ErrorPage ==
  [brace |-> FALSE, valid |-> FALSE, events |-> <<>>,
   lines |-> <<"Too Many Requests", L25 \o L25>>]

\* Line-oriented documents with a line that is only markup, with a line that
\* has two spaces in a row, and a WebVTT file with its banner and a NOTE block.
TagOnly == "<i></i>"
Wide == "abcdefghijkl  mnopqrstuvwx"
Banner == "WEBVTT"
NoteLine == "NOTE made by hand"
TagOnlyDoc ==
  [brace |-> FALSE, valid |-> FALSE, events |-> <<>>,
   lines |-> <<"1", TimeLine, L25, TagOnly, "", "2", TimeLine, L25>>]
WideDoc ==
  [brace |-> FALSE, valid |-> FALSE, events |-> <<>>,
   lines |-> <<"1", TimeLine, Wide, "", "2", TimeLine, L25>>]
VttDoc ==
  [brace |-> FALSE, valid |-> FALSE, events |-> <<>>,
   lines |-> <<Banner, "", NoteLine, "", TimeLine, L25, "", TimeLine, "<i>" \o L25 \o "</i>">>]

\* What a caption fetch can deliver.
Docs == {EmptyDoc, SrtShort, SrtOk, Json3Short, Json3Ok, Garbage, Json3Surrogate}

\* The fragments ('utf8' values) and the lines of the documents handed to a
\* single application of clean_any_content.
Tagged == "<i>" \o L25 \o "</i>"
Frags == {"Hello", "world", "[Music]", "[a] b [c]", " ", L25, L24}
Lines == {"1", TimeLine, "", " ", L25, L24, Tagged}

\* str.strip(), str.isdigit(), "'-->' in line" and re.sub(r'<[^>]+>', '', line)
\* on the lines and fragments that occur in Docs.
Strip(s) == IF s = " " THEN "" ELSE s
IsDigit(s) == s \in {"1", "2"}
HasArrow(s) == s = TimeLine
StripTags(s) ==
  IF s = "<i>" \o L25 \o "</i>" THEN L25 ELSE IF s = TagOnly THEN "" ELSE s
\* line.startswith('[') and line.endswith(']')
IsBracketed(s) == s \in {"[Music]", "[a] b [c]"}

\* ' '.join(parts)
RECURSIVE Join(_)
Join(parts) ==
  IF parts = <<>> THEN ""
  ELSE IF Len(parts) = 1 THEN parts[1]
  ELSE parts[1] \o " " \o Join(Tail(parts))

RECURSIVE Flatten(_)
Flatten(events) ==
  IF events = <<>> THEN <<>> ELSE Head(events) \o Flatten(Tail(events))

JsonParts_KeepBracketed(content) ==
  LET segs == Flatten(content.events)
      stripped == [i \in 1..Len(segs) |-> Strip(segs[i])]
      Kept(line) == line # ""
  IN  SelectSeq(stripped, Kept)

JsonParts(content) ==
  LET segs == Flatten(content.events)
      stripped == [i \in 1..Len(segs) |-> Strip(segs[i])]
      Kept(line) == line # "" /\ ~IsBracketed(line)
  IN  SelectSeq(stripped, Kept)

LineParts_KeepTiming(content) ==
  LET stripped == [i \in 1..Len(content.lines) |-> Strip(content.lines[i])]
      Kept(line) == ~(line = "" \/ IsDigit(line))
      kept == SelectSeq(stripped, Kept)
  IN  [i \in 1..Len(kept) |-> StripTags(kept[i])]

LineParts(content) ==
  LET stripped == [i \in 1..Len(content.lines) |-> Strip(content.lines[i])]
      Kept(line) == ~(line = "" \/ IsDigit(line) \/ HasArrow(line))
      kept == SelectSeq(stripped, Kept)
  IN  [i \in 1..Len(kept) |-> StripTags(kept[i])]

\* "return result if len(result) > 50 else None"
Gate(result) == IF Len(result) > MinLen THEN result ELSE None

clean_any_content_weak_gate(content, ext) ==
  IF content.lines = <<"">> THEN None
  ELSE IF (ext = "json3" \/ content.brace) /\ content.valid
       THEN LET result == Strip(Join(JsonParts(content)))
            IN  IF Len(result) >= MinLen THEN result ELSE None
       ELSE LET result == Strip(Join(LineParts(content)))
            IN  IF Len(result) >= MinLen THEN result ELSE None

clean_any_content(content, ext) ==
  IF content.lines = <<"">> THEN None
  ELSE IF (ext = "json3" \/ content.brace) /\ content.valid
       THEN Gate(Strip(Join(JsonParts(content))))
       ELSE Gate(Strip(Join(LineParts(content))))

\* --------------------------------------------------------------- catalog
\* info['subtitles'] and info['automatic_captions'] are insertion-ordered
\* dicts language -> list of entries; here a sequence of [lang, subs] with
\* distinct languages. An entry is [ext, url], url = ('url' in sub).
Langs == {"en", "ru", "fr", "de", "uk"}

Entry(ext, url) == [ext |-> ext, url |-> url]
\* The entry list of a track. The upstream offers every track of one video in
\* the same serializations: two serializations with the preferred one listed
\* last; a preferred one without URL beside an unrecognized one; no URL at all.
Shapes ==
  { <<Entry("vtt", TRUE), Entry("json3", TRUE)>>,
    <<Entry("json3", FALSE), Entry("ttml", TRUE)>>,
    <<Entry("srt", FALSE)>> }

Keys(d) == [i \in 1..Len(d) |-> d[i].lang]
HasKey(d, lang) == \E i \in 1..Len(d) : d[i].lang = lang
Get(d, lang) == d[CHOOSE i \in 1..Len(d) : d[i].lang = lang].subs

\* The sequences of n distinct languages.
LangSeqs(n) ==
  { d \in [1..n -> Langs] : \A i, j \in 1..n : i # j => d[i] # d[j] }

MakeDict(langs, shape) == [i \in 1..Len(langs) |-> [lang |-> langs[i], subs |-> shape]]

Catalogs ==
  UNION { { [subtitles |-> MakeDict(m, shape), automatic_captions |-> MakeDict(a, shape)] :
              m \in LangSeqs(nk[2]), a \in LangSeqs(nk[1] - nk[2]), shape \in Shapes } :
          nk \in { x \in (0..MaxTracks) \X (0..MaxTracks) : x[2] <= x[1] } }

\* The titles the oembed query can return for the video: one with a French
\* function word, and an empty one.
Titles == {"Les amis", ""}

\* The titles handed to a single application of the classifier: up to
\* MaxWords words, separated by one space, out of function words of the four
\* word lists, a word in no list, a Cyrillic word and a German word.
TitleWords == {"les", "el", "la", "o", "il", "hello", "U+043C U+0438 U+0440", "fU+00FCr"}
WordLetters(word) ==
  CASE word = "les" -> {"l", "e", "s"}
    [] word = "el" -> {"e", "l"}
    [] word = "la" -> {"l", "a"}
    [] word = "o" -> {"o"}
    [] word = "il" -> {"i", "l"}
    [] word = "hello" -> {"h", "e", "l", "o"}
    [] word = "U+043C U+0438 U+0440" -> {"U+043C", "U+0438", "U+0440"}
    [] word = "fU+00FCr" -> {"f", "U+00FC", "r"}
TitleWordSeqs == UNION {[1..n -> TitleWords] : n \in 1..MaxWords}
ClassifierTitles == {Join(ws) : ws \in TitleWordSeqs} \cup {""}
\* str.split() of such a title: the words it was joined from.
SplitTitle(title) == CHOOSE ws \in TitleWordSeqs : Join(ws) = title

\* title.lower() as its set of characters and as title_lower.split(); a
\* character outside ASCII is written as its code point.
LowerChars(title) ==
  CASE title = "Les amis" -> {"l", "e", "s", " ", "a", "m", "i"}
    [] title = "Unknown Video" -> {"u", "n", "k", "o", "w", " ", "v", "i", "d", "e"}
    [] title \in ClassifierTitles \ {""} ->
         UNION {WordLetters(SplitTitle(title)[i]) : i \in 1..Len(SplitTitle(title))}
           \cup (IF Len(SplitTitle(title)) > 1 THEN {" "} ELSE {})
    [] OTHER -> {}
LowerWords(title) ==
  CASE title = "Les amis" -> {"les", "amis"}
    [] title = "Unknown Video" -> {"unknown", "video"}
    [] title \in ClassifierTitles \ {""} ->
         {SplitTitle(title)[i] : i \in 1..Len(SplitTitle(title))}
    [] OTHER -> {}

russian_chars ==
  {"U+0430", "U+0431", "U+0432", "U+0433", "U+0434", "U+0435", "U+0451", "U+0436", "U+0437", "U+0438", "U+0439", "U+043A", "U+043B", "U+043C", "U+043D", "U+043E", "U+043F",
   "U+0440", "U+0441", "U+0442", "U+0443", "U+0444", "U+0445", "U+0446", "U+0447", "U+0448", "U+0449", "U+044A", "U+044B", "U+044C", "U+044D", "U+044E", "U+044F"}
german_chars == {"U+00E4", "U+00F6", "U+00FC", "U+00DF"}
french_words == {"les", "des", "est", "pour", "dans", "une", "un"}
spanish_words == {"el", "la", "los", "las", "y", "que", "del"}
portuguese_words == {"o", "a", "os", "as", "do", "da", "em"}
italian_words == {"il", "la", "i", "le", "del", "nel"}

detect_language_italian_first(title) ==
  IF title = "" THEN None
  ELSE IF LowerChars(title) \cap russian_chars # {} THEN "ru"
  ELSE IF LowerChars(title) \cap german_chars # {} THEN "de"
  ELSE IF LowerWords(title) \cap french_words # {} THEN "fr"
  ELSE IF LowerWords(title) \cap italian_words # {} THEN "it"
  ELSE IF LowerWords(title) \cap spanish_words # {} THEN "es"
  ELSE IF LowerWords(title) \cap portuguese_words # {} THEN "pt"
  ELSE "en"

detect_language_from_title(title) ==
  IF title = "" THEN None
  ELSE IF LowerChars(title) \cap russian_chars # {} THEN "ru"
  ELSE IF LowerChars(title) \cap german_chars # {} THEN "de"
  ELSE IF LowerWords(title) \cap french_words # {} THEN "fr"
  ELSE IF LowerWords(title) \cap spanish_words # {} THEN "es"
  ELSE IF LowerWords(title) \cap portuguese_words # {} THEN "pt"
  ELSE IF LowerWords(title) \cap italian_words # {} THEN "it"
  ELSE "en"

\* ------------------------------------------------- download_and_process_subs
preferred_formats == <<"json3", "json", "srv3", "vtt", "srt">>

\* preferred_formats.index(ext) if ext in preferred_formats else 99
Score(ext) ==
  IF \E i \in 1..Len(preferred_formats) : preferred_formats[i] = ext
  THEN (CHOOSE i \in 1..Len(preferred_formats) : preferred_formats[i] = ext) - 1
  ELSE 99

\* The loop over subs_list: best = [score, idx], idx = 0 while best_url is None.
RECURSIVE BestLoop(_, _, _)
BestLoop(subs_list, i, best) ==
  IF i > Len(subs_list) THEN best
  ELSE IF ~subs_list[i].url THEN BestLoop(subs_list, i + 1, best)
  ELSE IF Score(subs_list[i].ext) < best.score
       THEN BestLoop(subs_list, i + 1, [score |-> Score(subs_list[i].ext), idx |-> i])
       ELSE BestLoop(subs_list, i + 1, best)

\* The first entry with a URL, whatever its format.
BestFirstWithUrl(subs_list) ==
  LET U == {i \in 1..Len(subs_list) : subs_list[i].url}
  IN  IF U = {} THEN [score |-> 100, idx |-> 0]
      ELSE LET i == CHOOSE k \in U : \A j \in U : k <= j
           IN  [score |-> Score(subs_list[i].ext), idx |-> i]

Best(subs_list) == BestLoop(subs_list, 1, [score |-> 100, idx |-> 0])

\* ------------------------------------------------------ the language ladder
popular_langs == <<"en", "ru", "es", "fr", "de", "it", "pt", "ja", "ko", "zh">>

Pos(step, kind, lang, source_type) ==
  [step |-> step, kind |-> kind, lang |-> lang, source_type |-> source_type]

\* check_language_with_priority: the manual track, then the automatic one.
CheckLanguageAutoFirst(step, language) ==
  << Pos(step, "lang", language, "auto"), Pos(step, "lang", language, "manual") >>

check_language_with_priority(step, language) ==
  << Pos(step, "lang", language, "manual"), Pos(step, "lang", language, "auto") >>

\* One half of check_any_available_language: the popular languages in their
\* fixed order, then the first language of the dict.
AnyHalf(source_type) ==
  [i \in 1..Len(popular_langs) |-> Pos(4, "popular", popular_langs[i], source_type)]
    \o << Pos(4, "first", None, source_type) >>

CheckAnyManualOnly == AnyHalf("manual")

check_any_available_language == AnyHalf("manual") \o AnyHalf("auto")

\* The calls of download_and_process_subs that get_subtitles_with_priority can
\* make, in the order of its control flow.
LadderRuFirst(video_lang) ==
  check_language_with_priority(2, "ru")
    \o check_language_with_priority(1, "en")
    \o (IF video_lang # None /\ video_lang \notin {"en", "ru"}
        THEN check_language_with_priority(3, video_lang) ELSE <<>>)
    \o check_any_available_language

Ladder(video_lang) ==
  check_language_with_priority(1, "en")
    \o check_language_with_priority(2, "ru")
    \o (IF video_lang # None /\ video_lang \notin {"en", "ru"}
        THEN check_language_with_priority(3, video_lang) ELSE <<>>)
    \o check_any_available_language

SubsOf(info, source_type) ==
  IF source_type = "manual" THEN info.subtitles ELSE info.automatic_captions

\* The guard in front of each call: "manual_subs and language in manual_subs",
\* "lang in available_langs", or a non-empty dict for the first language.
Present(info, p) ==
  /\ SubsOf(info, p.source_type) # <<>>
  /\ p.kind = "first" \/ HasKey(SubsOf(info, p.source_type), p.lang)

PosLang(info, p) ==
  IF p.kind = "first" THEN Keys(SubsOf(info, p.source_type))[1] ELSE p.lang

\* The next position at or after `from` whose guard holds; 0 when the ladder
\* is exhausted (the function returns None, None, None).
NextPos(info, video_lang, from) ==
  LET ladder == Ladder(video_lang)
      S == { i \in from..Len(ladder) : Present(info, ladder[i]) }
  IN  IF S = {} THEN 0 ELSE CHOOSE i \in S : \A j \in S : i <= j

\* ------------------------------------------------------- extract_video_id
\* A URL is the sequence of its characters; None is the empty sequence (the
\* route tests both with "if not ...").
NoUrl == << >>
NoId == << >>

\* The character class [0-9A-Za-z_-] of the first pattern.
IdChars ==
  { "0", "1", "2", "3", "4", "5", "6", "7", "8", "9", "A", "B", "C", "D",
    "E", "F", "G", "H", "I", "J", "K", "L", "M", "N", "O", "P", "Q", "R",
    "S", "T", "U", "V", "W", "X", "Y", "Z", "a", "b", "c", "d", "e", "f",
    "g", "h", "i", "j", "k", "l", "m", "n", "o", "p", "q", "r", "s", "t",
    "u", "v", "w", "x", "y", "z", "_", "-" }

\* The literal parts of the three patterns.
LitV ==
  << "v", "=" >>
LitSlash ==
  << "/" >>
LitEmbed ==
  << "y", "o", "u", "t", "u", "b", "e", ".", "c", "o", "m", "/", "e", "m",
     "b", "e", "d", "/" >>
LitShort ==
  << "y", "o", "u", "t", "u", ".", "b", "e", "/" >>

IsAt(s, i, lit) ==
  /\ i + Len(lit) - 1 <= Len(s)
  /\ SubSeq(s, i, i + Len(lit) - 1) = lit

\* The end of the longest run of characters outside stop that starts at i
\* (i - 1 when the run is empty): a greedy negated character class.
RunEnd(s, i, stop) ==
  CHOOSE j \in (i - 1)..Len(s) :
    /\ \A k \in i..j : s[k] \notin stop
    /\ j = Len(s) \/ s[j + 1] \in stop

Least(I) == CHOOSE i \in I : \A j \in I : i <= j

\* r'(?:v=|\/)([0-9A-Za-z_-]{11})': the group when the pattern matches at i.
IdLen == 11
Group1At(s, i) ==
  LET from == IF IsAt(s, i, LitV) THEN i + 2
              ELSE IF IsAt(s, i, LitSlash) THEN i + 1 ELSE 0
  IN  IF /\ from # 0
         /\ from + IdLen - 1 <= Len(s)
         /\ \A k \in from..(from + IdLen - 1) : s[k] \in IdChars
      THEN SubSeq(s, from, from + IdLen - 1)
      ELSE NoId

\* r'youtube\.com\/embed\/([^\/\?]+)' and r'youtu\.be\/([^\?]+)': the group
\* when the literal lit is at i and at least one character outside stop
\* follows it.
GroupAfterAt(s, i, lit, stop) ==
  LET from == i + Len(lit)
  IN  IF IsAt(s, i, lit) /\ RunEnd(s, from, stop) >= from
      THEN SubSeq(s, from, RunEnd(s, from, stop))
      ELSE NoId

\* re.search(pattern, youtube_url).group(1) for each of the three patterns,
\* NoId when the pattern matches nowhere.
Search1(s) ==
  LET I == {i \in 1..Len(s) : Group1At(s, i) # NoId}
  IN  IF I = {} THEN NoId ELSE Group1At(s, Least(I))

Search2(s) ==
  LET I == {i \in 1..Len(s) : GroupAfterAt(s, i, LitEmbed, {"/", "?"}) # NoId}
  IN  IF I = {} THEN NoId ELSE GroupAfterAt(s, Least(I), LitEmbed, {"/", "?"})

Search3(s) ==
  LET I == {i \in 1..Len(s) : GroupAfterAt(s, i, LitShort, {"?"}) # NoId}
  IN  IF I = {} THEN NoId ELSE GroupAfterAt(s, Least(I), LitShort, {"?"})

extract_video_id(youtube_url) ==
  IF Search1(youtube_url) # NoId THEN Search1(youtube_url)
  ELSE IF Search2(youtube_url) # NoId THEN Search2(youtube_url)
  ELSE Search3(youtube_url)

\* str.strip() of a URL (the POST branch).
RECURSIVE StripUrl(_)
StripUrl(s) ==
  IF s = << >> THEN s
  ELSE IF Head(s) = " " THEN StripUrl(Tail(s))
  ELSE IF s[Len(s)] = " " THEN StripUrl(SubSeq(s, 1, Len(s) - 1))
  ELSE s

\* The requests of the model: a method and, when present, the text of the
\* url parameter (GET) or of the "url" key of the JSON body (POST).
PrefixWatch ==
  << "h", "t", "t", "p", "s", ":", "/", "/", "w", "w", "w", ".", "y", "o",
     "u", "t", "u", "b", "e", ".", "c", "o", "m", "/", "w", "a", "t", "c",
     "h", "?", "v", "=" >>
PrefixShort ==
  << "h", "t", "t", "p", "s", ":", "/", "/", "y", "o", "u", "t", "u", ".",
     "b", "e", "/" >>
PrefixEmbed ==
  << "h", "t", "t", "p", "s", ":", "/", "/", "w", "w", "w", ".", "y", "o",
     "u", "t", "u", "b", "e", ".", "c", "o", "m", "/", "e", "m", "b", "e",
     "d", "/" >>
PrefixOther ==
  << "h", "t", "t", "p", "s", ":", "/", "/", "e", "x", "a", "m", "p", "l",
     "e", ".", "c", "o", "m", "/" >>
IdGood ==
  << "d", "Q", "w", "4", "w", "9", "W", "g", "X", "c", "Q" >>
IdTooShort ==
  << "a", "b", "c" >>
IdTooLong ==
  << "d", "Q", "w", "4", "w", "9", "W", "g", "X", "c", "Q", "1", "x" >>
IdWithDot ==
  << "d", "Q", "w", "4", "w", ".", "W", "g", "X", "c", "Q" >>
SuffixQuery ==
  << "?", "t", "=", "1", "0" >>
SuffixPath ==
  << "/", "e", "x", "t", "r", "a" >>
Blank ==
  << " " >>

Urls ==
  {p \o i \o x : p \in {PrefixWatch, PrefixShort, PrefixEmbed, PrefixOther},
                 i \in {IdGood, IdTooShort, IdTooLong, IdWithDot, << >>},
                 x \in {<< >>, SuffixQuery, SuffixPath}}
    \cup {<< >>, Blank}

Requests ==
  {[method |-> m, has_url |-> TRUE, url |-> u] : m \in {"GET", "POST"}, u \in Urls}
    \cup {[method |-> m, has_url |-> FALSE, url |-> NoUrl] : m \in {"GET", "POST"}}

\* ------------------------------------------------------------------ state
VARIABLES
  video,        \* the upstream's caption catalog of the requested video
  pc,           \* "probe", "metadata", "ladder", "returned", "responded"
  attempt,      \* the loop variable of "for attempt in range(max_retries)"
  info,         \* what ydl.extract_info returned in this attempt
  video_title,  \* video_info['title'] of this attempt
  video_author, \* video_info['author_name'] of this attempt
  video_lang,   \* detect_language_from_title(video_title)
  pos,          \* the position in Ladder(video_lang) about to be tried
  result,       \* the return value of download_subtitles
  response,     \* the response of the /download route
  probeLog,     \* the outcome of every extract_info call, in order
  metaLog,      \* the outcome of every get_video_info call, in order
  fetchLog,     \* every urlopen of a caption URL, in order
  request,      \* the request the /download route is serving
  video_id,     \* extract_video_id(youtube_url), NoId before it is computed
  archives,     \* the archives this request has created in UPLOAD_FOLDER
  \* download_subtitles seen as the attempt loop over ydl_opts
  ydl_pc,       \* "idle", "probe", "returned"
  ydl_attempt,  \* the loop variable of that view
  ydl_opts,     \* ydl_opts['http_headers']: User-Agent and Referer
  ydl_result,   \* what the call returns: None, or a result with its auth_method
  identityLog,  \* the User-Agent and the outcome of every probe, in order
  store,        \* OAUTH_TOKEN, oauth_token.txt and cookies.txt
  auth_method,  \* auth_methods_tried[0]
  \* two download_subtitles calls running at once
  calls,        \* call -> its frame: position, attempt, ydl_opts, last probe
  \* one application of download_and_process_subs' choice or clean_any_content
  fn_pc,        \* "idle", "input", "output"
  entries,      \* the subs_list handed to the format choice
  chosen,       \* Best(entries)
  doc,          \* the content handed to clean_any_content
  doc_ext,      \* its ext argument
  cleaned,      \* clean_any_content(doc, doc_ext)
  fn_title,     \* the title handed to detect_language_from_title
  fn_lang       \* detect_language_from_title(fn_title)

routeVars ==
  << video, pc, attempt, info, video_title, video_author, video_lang, pos,
     result, response, probeLog, metaLog, fetchLog, request, video_id,
     archives >>
identityVars ==
  << ydl_pc, ydl_attempt, ydl_opts, ydl_result, identityLog, store, auth_method >>
pairVars == << calls >>
fnVars == << fn_pc, entries, chosen, doc, doc_ext, cleaned, fn_title, fn_lang >>
vars == << routeVars, identityVars, pairVars, fnVars >>

NoInfo == [present |-> FALSE, subtitles |-> <<>>, automatic_captions |-> <<>>]
NoResult ==
  [none |-> TRUE, title |-> None, author |-> None, subtitles |-> None,
   language |-> None, source_type |-> None]
NoResponse ==
  [sent |-> FALSE, kind |-> None, success |-> FALSE, status |-> 0, error |-> None,
   priority_used |-> 0]

\* What urlopen(best_url).read() can do: raise, or deliver a document.
Responses ==
  {[error |-> TRUE, doc |-> EmptyDoc]} \cup {[error |-> FALSE, doc |-> d] : d \in Docs}

\* What get_video_info can return: the oembed data, or the placeholders when
\* the query fails.
get_video_info_no_placeholder ==
  {[title |-> t, author_name |-> "Some Channel", failed |-> FALSE] : t \in Titles}
    \cup {[title |-> "", author_name |-> "", failed |-> TRUE]}

get_video_info ==
  {[title |-> t, author_name |-> "Some Channel", failed |-> FALSE] : t \in Titles}
    \cup {[title |-> "Unknown Video", author_name |-> "Unknown Author",
            failed |-> TRUE]}

\* The credential store: the OAUTH_TOKEN environment variable, the content
\* of oauth_token.txt and the existence of cookies.txt.
NoStore == [env_token |-> FALSE, token_file |-> "absent", cookies_file |-> FALSE]
NoYdlResult == [none |-> TRUE, auth_method |-> None]

\* The attempt-loop view and the single function applications are not running.
IdentityIdle ==
  /\ ydl_pc = "idle"
  /\ ydl_attempt = 0
  /\ ydl_opts = [user_agent |-> None, referer |-> None, player_client |-> <<>>]
  /\ ydl_result = NoYdlResult
  /\ identityLog = <<>>
  /\ store = NoStore
  /\ auth_method = None

PairIdle == calls = <<>>

FnIdle ==
  /\ fn_pc = "idle"
  /\ entries = <<>>
  /\ chosen = [score |-> 100, idx |-> 0]
  /\ doc = EmptyDoc
  /\ doc_ext = None
  /\ cleaned = None
  /\ fn_title = ""
  /\ fn_lang = None

\* download_subtitles has not started.
CallIdle ==
  /\ attempt = 0
  /\ info = NoInfo
  /\ video_title = None
  /\ video_author = None
  /\ video_lang = None
  /\ pos = 0
  /\ result = NoResult
  /\ response = NoResponse
  /\ probeLog = <<>>
  /\ metaLog = <<>>
  /\ fetchLog = <<>>
  /\ archives = 0

\* The route is not serving a request.
RouteIdle ==
  /\ video = [subtitles |-> <<>>, automatic_captions |-> <<>>]
  /\ request = [method |-> "POST", has_url |-> TRUE, url |-> PrefixWatch \o IdGood]
  /\ video_id = NoId
  /\ pc = "idle"
  /\ CallIdle

\* The route has accepted a request and calls download_subtitles(video_id).
Init ==
  /\ video \in Catalogs
  /\ request = [method |-> "POST", has_url |-> TRUE, url |-> PrefixWatch \o IdGood]
  /\ video_id = extract_video_id(request.url)
  /\ pc = "probe"
  /\ CallIdle
  /\ IdentityIdle
  /\ PairIdle
  /\ FnIdle

\* ------------------------------------------------------ download_subtitles
\* The end of an attempt that produced no text: "continue" while
\* attempt < max_retries - 1, otherwise the loop ends and None is returned.
RetryOrGiveUp_NoRetry ==
  /\ attempt' = attempt
  /\ pc' = "returned"
  /\ result' = NoResult

RetryOrGiveUp_EmptyResult ==
  IF attempt < max_retries - 1
  THEN attempt' = attempt + 1 /\ pc' = "probe" /\ result' = result
  ELSE /\ attempt' = attempt
       /\ pc' = "returned"
       /\ result' = [NoResult EXCEPT !.none = FALSE]

RetryOrGiveUp_OneMore ==
  IF attempt < max_retries
  THEN attempt' = attempt + 1 /\ pc' = "probe" /\ result' = result
  ELSE attempt' = attempt /\ pc' = "returned" /\ result' = NoResult

RetryOrGiveUp ==
  IF attempt < max_retries - 1
  THEN attempt' = attempt + 1 /\ pc' = "probe" /\ result' = result
  ELSE attempt' = attempt /\ pc' = "returned" /\ result' = NoResult

\* extract_info returns the catalog.
ExtractInfoOk ==
  /\ pc = "probe"
  /\ probeLog' = Append(probeLog, "info")
  /\ info' = [present |-> TRUE, subtitles |-> video.subtitles,
              automatic_captions |-> video.automatic_captions]
  /\ pc' = "metadata"
  /\ UNCHANGED << identityVars, pairVars, fnVars, archives, request, video_id, video, attempt,
                  video_title, video_author, metaLog, video_lang, pos, result,
                  response, fetchLog >>

\* extract_info returns nothing ("if not info").
ExtractInfoNone ==
  /\ pc = "probe"
  /\ probeLog' = Append(probeLog, "none")
  /\ info' = NoInfo
  /\ RetryOrGiveUp
  /\ UNCHANGED << identityVars, pairVars, fnVars, archives, request, video_id, video, video_title,
                  video_author, metaLog, video_lang, pos, response, fetchLog >>

\* extract_info raises DownloadError with a bot-check message.
DownloadErrorBlocked ==
  /\ pc = "probe"
  /\ probeLog' = Append(probeLog, "blocked")
  /\ info' = NoInfo
  /\ RetryOrGiveUp
  /\ UNCHANGED << identityVars, pairVars, fnVars, archives, request, video_id, video, video_title,
                  video_author, metaLog, video_lang, pos, response, fetchLog >>

\* extract_info raises another DownloadError.
DownloadErrorOther ==
  /\ pc = "probe"
  /\ probeLog' = Append(probeLog, "download_error")
  /\ info' = NoInfo
  /\ RetryOrGiveUp
  /\ UNCHANGED << identityVars, pairVars, fnVars, archives, request, video_id, video, video_title,
                  video_author, metaLog, video_lang, pos, response, fetchLog >>

\* extract_info raises any other exception.
ProbeException_Escapes ==
  /\ pc = "probe"
  /\ probeLog' = Append(probeLog, "exception")
  /\ info' = NoInfo
  /\ pc' = "raised"
  /\ UNCHANGED << identityVars, pairVars, fnVars, archives, request, video_id, video, video_title,
                  video_author, metaLog, video_lang, pos, response, fetchLog,
                  attempt, result >>

ProbeException ==
  /\ pc = "probe"
  /\ probeLog' = Append(probeLog, "exception")
  /\ info' = NoInfo
  /\ RetryOrGiveUp
  /\ UNCHANGED << identityVars, pairVars, fnVars, archives, request, video_id, video, video_title,
                  video_author, metaLog, video_lang, pos, response, fetchLog >>

\* get_video_info (the title, or the placeholder when the query fails), then
\* the entry of get_subtitles_with_priority up to its first call of
\* download_and_process_subs.
GetVideoInfo ==
  /\ pc = "metadata"
  /\ \E video_info \in get_video_info :
       LET lang == detect_language_from_title(video_info.title)
           first == NextPos(info, lang, 1)
       IN  /\ video_title' = video_info.title
           /\ video_author' = video_info.author_name
           /\ metaLog' = Append(metaLog, [attempt |-> attempt,
                                         failed |-> video_info.failed])
           /\ video_lang' = lang
           /\ IF first # 0
              THEN pos' = first /\ pc' = "ladder" /\ UNCHANGED << attempt, result >>
              ELSE pos' = 0 /\ RetryOrGiveUp
  /\ UNCHANGED << identityVars, pairVars, fnVars, archives, request, video_id, video, info,
                  response, probeLog, fetchLog >>

\* What follows one call of download_and_process_subs: "if text: return ..."
\* up to download_subtitles' return of the result, or the next guarded call.
AfterTry_NoReturn(text, language, source_type) ==
  LET next == NextPos(info, video_lang, pos + 1)
  IN  IF next # 0
      THEN pos' = next /\ UNCHANGED << pc, attempt, result >>
      ELSE IF text # None
      THEN /\ result' = [none |-> FALSE, title |-> video_title,
                         author |-> video_author, subtitles |-> text,
                         language |-> language, source_type |-> source_type]
           /\ pc' = "returned"
           /\ UNCHANGED << pos, attempt >>
      ELSE pos' = 0 /\ RetryOrGiveUp

AfterTry(text, language, source_type) ==
  IF text # None
  THEN /\ result' = [none |-> FALSE, title |-> video_title,
                         author |-> video_author, subtitles |-> text,
                     language |-> language, source_type |-> source_type]
       /\ pc' = "returned"
       /\ UNCHANGED << pos, attempt >>
  ELSE LET next == NextPos(info, video_lang, pos + 1)
       IN  IF next # 0
           THEN pos' = next /\ UNCHANGED << pc, attempt, result >>
           ELSE pos' = 0 /\ RetryOrGiveUp

\* One call of download_and_process_subs at the current ladder position.
DownloadAndProcessSubs_ByAttempt ==
  /\ pc = "ladder"
  /\ LET p == Ladder(video_lang)[pos]
         language == PosLang(info, p)
         subs_list == Get(SubsOf(info, p.source_type), language)
         best == IF attempt = 0 THEN Best(subs_list) ELSE BestFirstWithUrl(subs_list)
     IN  IF best.idx = 0
         THEN /\ fetchLog' = fetchLog
              /\ AfterTry(None, language, p.source_type)
         ELSE \E r \in Responses :
                LET best_format == subs_list[best.idx].ext
                    text == IF r.error THEN None ELSE clean_any_content(r.doc, best_format)
                IN  /\ fetchLog' = Append(fetchLog,
                          [attempt |-> attempt, step |-> p.step, lang |-> language,
                           source_type |-> p.source_type, ext |-> best_format,
                           video_lang |-> video_lang, ok |-> text # None])
                    /\ AfterTry(text, language, p.source_type)
  /\ UNCHANGED << identityVars, pairVars, fnVars, archives, request, video_id, video, info,
                  video_title, video_author, metaLog, video_lang, response, probeLog >>

DownloadAndProcessSubs ==
  /\ pc = "ladder"
  /\ LET p == Ladder(video_lang)[pos]
         language == PosLang(info, p)
         subs_list == Get(SubsOf(info, p.source_type), language)
         best == Best(subs_list)
     IN  IF best.idx = 0
         THEN /\ fetchLog' = fetchLog
              /\ AfterTry(None, language, p.source_type)
         ELSE \E r \in Responses :
                LET best_format == subs_list[best.idx].ext
                    text == IF r.error THEN None ELSE clean_any_content(r.doc, best_format)
                IN  /\ fetchLog' = Append(fetchLog,
                          [attempt |-> attempt, step |-> p.step, lang |-> language,
                           source_type |-> p.source_type, ext |-> best_format,
                           video_lang |-> video_lang, ok |-> text # None])
                    /\ AfterTry(text, language, p.source_type)
  /\ UNCHANGED << identityVars, pairVars, fnVars, archives, request, video_id, video, info,
                  video_title, video_author, metaLog, video_lang, response, probeLog >>

\* ------------------------------------------------- download_subtitles_route
\* The number of the priority named by the label of get_priority_used.
get_priority_used(language, source_type) ==
  IF language = "en" THEN 1
  ELSE IF language = "ru" THEN 2
  ELSE IF source_type = "manual" THEN 3
  ELSE 4

\* content.encode('utf-8') raises UnicodeEncodeError on a lone surrogate.
Encodes(text) == text # L25 \o " " \o L25 \o "U+D800"

\* create_zip_file: zipfile.ZipFile(zip_filepath, 'w') creates the file, then
\* the content is encoded and written; leaving the with block closes the
\* archive, also when the encoding raised.
create_zip_file(title, subtitles_text) ==
  [created |-> 1, raised |-> ~Encodes(subtitles_text)]

RouteResponse(res) ==
  IF res.none
  THEN [sent |-> TRUE, kind |-> "error", success |-> FALSE, status |-> 400,
        error |-> "blocked", priority_used |-> 0]
  ELSE IF res.subtitles = None \/ res.subtitles = ""
  THEN [sent |-> TRUE, kind |-> "error", success |-> FALSE, status |-> 400,
        error |-> "no_subtitles", priority_used |-> 0]
  ELSE IF create_zip_file(res.title, res.subtitles).raised
  THEN [sent |-> TRUE, kind |-> "error", success |-> FALSE, status |-> 400,
        error |-> "exception", priority_used |-> 0]
  ELSE [sent |-> TRUE, kind |-> "zip", success |-> TRUE, status |-> 200,
        error |-> None,
        priority_used |-> get_priority_used(res.language, res.source_type)]

Route ==
  /\ pc = "returned"
  /\ archives' = IF (~result.none /\ result.subtitles # None /\ result.subtitles # "")
                 THEN archives + create_zip_file(result.title, result.subtitles).created
                 ELSE archives
  /\ response' = RouteResponse(result)
  /\ pc' = "responded"
  /\ UNCHANGED << identityVars, pairVars, fnVars, request, video_id, video, attempt,
                  info, video_title, video_author, metaLog, video_lang, pos,
                  result, probeLog, fetchLog >>

Next ==
  \/ ExtractInfoOk
  \/ ExtractInfoNone
  \/ DownloadErrorBlocked
  \/ DownloadErrorOther
  \/ ProbeException
  \/ GetVideoInfo
  \/ DownloadAndProcessSubs
  \/ Route

Spec == Init /\ [][Next]_vars

\* ------------------------------------ download_subtitles_route: dispatch
\* The url the route works with: request.args.get('url'), or
\* data['url'].strip() of the JSON body.
YoutubeUrl(req) == IF req.method = "POST" THEN StripUrl(req.url) ELSE req.url

\* What the route does with a request before any call of download_subtitles.
Dispatch_NoIdCheck(req) ==
  IF req.method = "GET" /\ (~req.has_url \/ req.url = NoUrl) THEN "instruction"
  ELSE IF req.method = "POST" /\ ~req.has_url THEN "send_json"
  ELSE IF YoutubeUrl(req) = NoUrl THEN "enter_url"
  ELSE "download"

Dispatch(req) ==
  IF req.method = "GET" /\ (~req.has_url \/ req.url = NoUrl) THEN "instruction"
  ELSE IF req.method = "POST" /\ ~req.has_url THEN "send_json"
  ELSE IF YoutubeUrl(req) = NoUrl THEN "enter_url"
  ELSE IF extract_video_id(YoutubeUrl(req)) = NoId THEN "invalid_url"
  ELSE "download"

error_response(message) ==
  [sent |-> TRUE, kind |-> "error", success |-> FALSE, status |-> 400,
   error |-> message, priority_used |-> 0]

\* The instruction page of a GET request without url parameter.
InstructionPage ==
  [sent |-> TRUE, kind |-> "html", success |-> FALSE, status |-> 200,
   error |-> None, priority_used |-> 0]

RouteCatalogs ==
  { [subtitles |-> MakeDict(<<"en">>, <<Entry("vtt", TRUE), Entry("json3", TRUE)>>),
     automatic_captions |-> <<>>] }

InitRoute ==
  /\ video \in RouteCatalogs
  /\ request \in Requests
  /\ video_id = NoId
  /\ pc = "request"
  /\ CallIdle
  /\ IdentityIdle
  /\ PairIdle
  /\ FnIdle

RouteInstruction ==
  /\ pc = "request"
  /\ Dispatch(request) = "instruction"
  /\ response' = InstructionPage
  /\ pc' = "responded"
  /\ UNCHANGED << identityVars, pairVars, fnVars, archives, request, video_id, video, attempt,
                  info, video_title, video_author, metaLog, video_lang, pos,
                  result, probeLog, fetchLog >>

RouteRejected ==
  /\ pc = "request"
  /\ Dispatch(request) \in {"send_json", "enter_url", "invalid_url"}
  /\ response' = error_response(Dispatch(request))
  /\ pc' = "responded"
  /\ UNCHANGED << identityVars, pairVars, fnVars, archives, request, video_id, video, attempt,
                  info, video_title, video_author, metaLog, video_lang, pos,
                  result, probeLog, fetchLog >>

\* "result = download_subtitles(video_id)": the call starts with its probe.
RouteAccepted ==
  /\ pc = "request"
  /\ Dispatch(request) = "download"
  /\ video_id' = extract_video_id(YoutubeUrl(request))
  /\ pc' = "probe"
  /\ UNCHANGED << identityVars, pairVars, fnVars, archives, request, video, attempt, info,
                  video_title, video_author, metaLog, video_lang, pos, result,
                  response, probeLog, fetchLog >>

NextRoute ==
  \/ RouteInstruction
  \/ RouteRejected
  \/ RouteAccepted
  \/ Next

SpecRoute == InitRoute /\ [][NextRoute]_vars

\* ------------------------- download_and_process_subs: the format choice
\* One application of the choice to a list of entries: recognized formats
\* (json3, vtt, srt), unrecognized ones (ttml, srv1), with and without URL.
FormatExts == {"json3", "vtt", "srt", "ttml", "srv1"}
FormatEntries == {Entry(e, u) : e \in FormatExts, u \in BOOLEAN}
EntryLists == UNION {[1..n -> FormatEntries] : n \in 0..MaxEntries}

InitFormat ==
  /\ RouteIdle
  /\ IdentityIdle
  /\ PairIdle
  /\ fn_pc = "input"
  /\ entries \in EntryLists
  /\ chosen = [score |-> 100, idx |-> 0]
  /\ doc = EmptyDoc
  /\ doc_ext = None
  /\ cleaned = None
  /\ fn_title = ""
  /\ fn_lang = None

\* The loop of lines 261-270; "if best_url" fetches entries[chosen.idx] when
\* chosen.idx # 0 and nothing otherwise.
ChooseFormat ==
  /\ fn_pc = "input"
  /\ chosen' = Best(entries)
  /\ fn_pc' = "output"
  /\ UNCHANGED << routeVars, identityVars, pairVars, entries, doc, doc_ext,
                  cleaned, fn_title, fn_lang >>

NextFormat == ChooseFormat

SpecFormat == InitFormat /\ [][NextFormat]_vars

\* ------------------------------------- one call of clean_any_content
\* Structured documents: valid JSON whose fragments lie in one event or in
\* one event each.  Line-oriented documents: up to MaxLines lines.
FragSeqs == UNION {[1..n -> Frags] : n \in 0..MaxFrags}
JsonDocs ==
  {[brace |-> TRUE, valid |-> TRUE, events |-> <<fs>>, lines |-> <<"{json3}">>] :
      fs \in FragSeqs}
    \cup
  {[brace |-> TRUE, valid |-> TRUE, events |-> [i \in 1..Len(fs) |-> <<fs[i]>>],
    lines |-> <<"{json3}">>] : fs \in FragSeqs}
LineDocs ==
  {[brace |-> FALSE, valid |-> FALSE, events |-> <<>>, lines |-> ls] :
      ls \in UNION {[1..n -> Lines] : n \in 1..MaxLines}}
MarkupDocs == {TagOnlyDoc, WideDoc, VttDoc}
CleanDocs ==
  JsonDocs \cup LineDocs \cup Docs \cup {GarbageShort, WrongShape, ErrorPage}
    \cup MarkupDocs

InitClean ==
  /\ RouteIdle
  /\ IdentityIdle
  /\ PairIdle
  /\ fn_pc = "input"
  /\ entries = <<>>
  /\ chosen = [score |-> 100, idx |-> 0]
  /\ doc \in CleanDocs
  /\ doc_ext \in {"json3", "vtt"}
  /\ cleaned = None
  /\ fn_title = ""
  /\ fn_lang = None

CleanContent ==
  /\ fn_pc = "input"
  /\ cleaned' = clean_any_content(doc, doc_ext)
  /\ fn_pc' = "output"
  /\ UNCHANGED << routeVars, identityVars, pairVars, entries, chosen, doc,
                  doc_ext, fn_title, fn_lang >>

NextClean == CleanContent

SpecClean == InitClean /\ [][NextClean]_vars

\* -------------------------------- one call of detect_language_from_title
InitTitle ==
  /\ RouteIdle
  /\ IdentityIdle
  /\ PairIdle
  /\ fn_pc = "input"
  /\ entries = <<>>
  /\ chosen = [score |-> 100, idx |-> 0]
  /\ doc = EmptyDoc
  /\ doc_ext = None
  /\ cleaned = None
  /\ fn_title \in ClassifierTitles
  /\ fn_lang = None

DetectLanguage ==
  /\ fn_pc = "input"
  /\ fn_lang' = detect_language_from_title(fn_title)
  /\ fn_pc' = "output"
  /\ UNCHANGED << routeVars, identityVars, pairVars, entries, chosen, doc,
                  doc_ext, cleaned, fn_title >>

NextTitle == DetectLanguage

SpecTitle == InitTitle /\ [][NextTitle]_vars

\* ------------------------------- download_subtitles: the request identity
\* The same attempt loop, seen from ydl_opts['http_headers']: each action is
\* one iteration of "for attempt in range(max_retries)", from the probe that
\* YoutubeDL(ydl_opts) makes to the "continue" or "return" that ends it.  What
\* get_subtitles_with_priority does in between is summarised by its outcome.
get_random_user_agent ==
  { "Mozilla/5.0 (Windows NT 10.0; Win64; x64) AppleWebKit/537.36 (KHTML, like Gecko) Chrome/120.0.0.0 Safari/537.36",
    "Mozilla/5.0 (Windows NT 10.0; Win64; x64; rv:109.0) Gecko/20100101 Firefox/121.0",
    "Mozilla/5.0 (Macintosh; Intel Mac OS X 10_15_7) AppleWebKit/537.36 (KHTML, like Gecko) Chrome/120.0.0.0 Safari/537.36",
    "Mozilla/5.0 (X11; Linux x86_64) AppleWebKit/537.36 (KHTML, like Gecko) Chrome/120.0.0.0 Safari/537.36",
    "Mozilla/5.0 (Linux; Android 10) AppleWebKit/537.36 (KHTML, like Gecko) Chrome/120.0.6099.144 Mobile Safari/537.36",
    "com.google.android.youtube/17.36.4 (Linux; U; Android 11) gzip",
    "Mozilla/5.0 (iPhone; CPU iPhone OS 17_2 like Mac OS X) AppleWebKit/605.1.15 (KHTML, like Gecko) Version/17.2 Mobile/15E148 Safari/604.1" }

MobileUserAgent ==
  "Mozilla/5.0 (Linux; Android 10; SM-G960F) AppleWebKit/537.36 (KHTML, like Gecko) Chrome/120.0.0.0 Mobile Safari/537.36"

\* The headers after a bot-check refusal on a non-final attempt.
RotateOnBlock_KeepUserAgent(opts) == [opts EXCEPT !.referer = "embed"]

RotateOnBlock(opts) ==
  [opts EXCEPT !.user_agent = MobileUserAgent, !.referer = "embed"]

\* The stores a call can find, the method it selects (lines 369-396), and the
\* player_client list that results.
AuthStores ==
  [env_token : BOOLEAN, token_file : {"absent", "blank", "token"},
   cookies_file : BOOLEAN]

SelectAuth_CookiesFirst(s) ==
  IF s.cookies_file THEN "Cookies"
  ELSE IF s.env_token \/ s.token_file = "token" THEN "OAuth"
  ELSE "None"

SelectAuth(s) ==
  IF s.env_token \/ s.token_file = "token" THEN "OAuth"
  ELSE IF s.cookies_file THEN "Cookies"
  ELSE "None"

player_client(method) ==
  IF method = "None" THEN <<"android", "web", "ios", "tv">>
  ELSE <<"android", "web">>

InitIdentity ==
  /\ RouteIdle
  /\ FnIdle
  /\ PairIdle
  /\ ydl_pc = "probe"
  /\ ydl_attempt = 0
  /\ store \in AuthStores
  /\ auth_method = SelectAuth(store)
  /\ \E user_agent \in get_random_user_agent :
       ydl_opts = [user_agent |-> user_agent, referer |-> "watch",
                   player_client |-> player_client(auth_method)]
  /\ ydl_result = NoYdlResult
  /\ identityLog = <<>>

Probed(outcome) ==
  identityLog' =
    Append(identityLog, [user_agent |-> ydl_opts.user_agent, outcome |-> outcome])

\* "continue" with the given headers on a non-final attempt; on the final
\* one the loop ends and None is returned.
ContinueWith(opts) ==
  IF ydl_attempt < max_retries - 1
  THEN /\ ydl_attempt' = ydl_attempt + 1
       /\ ydl_opts' = opts
       /\ UNCHANGED << ydl_pc, ydl_result >>
  ELSE /\ ydl_pc' = "returned"
       /\ ydl_result' = NoYdlResult
       /\ UNCHANGED << ydl_attempt, ydl_opts >>

\* The ladder found text: the result is returned.
AttemptText ==
  /\ ydl_pc = "probe"
  /\ Probed("text")
  /\ ydl_pc' = "returned"
  /\ ydl_result' = [none |-> FALSE, auth_method |-> auth_method]
  /\ UNCHANGED << ydl_attempt, ydl_opts, store, auth_method, routeVars,
                  pairVars, fnVars >>

\* The ladder found nothing: a fresh random User-Agent for the next attempt.
AttemptNoText ==
  /\ ydl_pc = "probe"
  /\ Probed("no_text")
  /\ \E user_agent \in get_random_user_agent :
       ContinueWith([ydl_opts EXCEPT !.user_agent = user_agent])
  /\ UNCHANGED << store, auth_method, routeVars, pairVars, fnVars >>

\* "if not info".
AttemptNoInfo ==
  /\ ydl_pc = "probe"
  /\ Probed("none")
  /\ ContinueWith(ydl_opts)
  /\ UNCHANGED << store, auth_method, routeVars, pairVars, fnVars >>

\* DownloadError with a bot-check message.
AttemptBlocked ==
  /\ ydl_pc = "probe"
  /\ Probed("blocked")
  /\ ContinueWith(RotateOnBlock(ydl_opts))
  /\ UNCHANGED << store, auth_method, routeVars, pairVars, fnVars >>

\* Another DownloadError, or any other exception.
AttemptError ==
  /\ ydl_pc = "probe"
  /\ \E outcome \in {"download_error", "exception"} : Probed(outcome)
  /\ ContinueWith(ydl_opts)
  /\ UNCHANGED << store, auth_method, routeVars, pairVars, fnVars >>

NextIdentity ==
  \/ AttemptText
  \/ AttemptNoText
  \/ AttemptNoInfo
  \/ AttemptBlocked
  \/ AttemptError

SpecIdentity == InitIdentity /\ [][NextIdentity]_vars

\* ------------------------------ download_subtitles: two calls at once
\* Each call has its own frame: ydl_opts is a dict built inside the function
\* (lines 333-366), attempt its loop variable.  A step of one call is one
\* iteration of its loop, and the steps of the two calls interleave freely.
\* `writers` are the calls that have written the ydl_opts a frame holds,
\* `seen` the writers of every ydl_opts the call has read for a probe, and
\* `last` the User-Agent and outcome of the call's previous probe.
CallIds == {"a", "b"}
NoProbe == [user_agent |-> None, outcome |-> None]
NoFrame ==
  [pc |-> "start", attempt |-> 0,
   opts |-> [user_agent |-> None, referer |-> None, player_client |-> <<>>],
   auth_method |-> None, last |-> NoProbe, result |-> NoYdlResult,
   writers |-> {}, seen |-> {}]

\* Call c assigns ydl_opts (or one of its headers).
Write_Shared(frames, c, opts) ==
  [d \in DOMAIN frames |->
     [frames[d] EXCEPT !.opts = opts, !.writers = frames[d].writers \cup {c}]]

Write(frames, c, opts) ==
  [frames EXCEPT ![c].opts = opts, ![c].writers = frames[c].writers \cup {c}]

InitPair ==
  /\ RouteIdle
  /\ FnIdle
  /\ IdentityIdle
  /\ calls = [c \in CallIds |-> NoFrame]

\* Lines 329-396: the call builds its ydl_opts and selects its method.
PairStart(c) ==
  /\ calls[c].pc = "start"
  /\ \E user_agent \in get_random_user_agent :
       calls' =
         [Write(calls, c, [user_agent |-> user_agent, referer |-> "watch",
                           player_client |-> player_client(SelectAuth(store))])
            EXCEPT ![c].pc = "probe", ![c].auth_method = SelectAuth(store)]
  /\ UNCHANGED << routeVars, identityVars, fnVars >>

\* YoutubeDL(ydl_opts) reads the frame's options for the probe.
PairProbed(frames, c, outcome) ==
  [frames EXCEPT
     ![c].last = [user_agent |-> calls[c].opts.user_agent, outcome |-> outcome],
     ![c].seen = calls[c].seen \cup calls[c].writers]

\* "continue" on a non-final attempt, "return None" on the final one.
PairContinue(frames, c) ==
  IF calls[c].attempt < max_retries - 1
  THEN [frames EXCEPT ![c].attempt = calls[c].attempt + 1]
  ELSE [frames EXCEPT ![c].pc = "returned"]

PairText(c) ==
  /\ calls[c].pc = "probe"
  /\ calls' =
       [PairProbed(calls, c, "text") EXCEPT
          ![c].pc = "returned",
          ![c].result = [none |-> FALSE, auth_method |-> calls[c].auth_method]]
  /\ UNCHANGED << routeVars, identityVars, fnVars >>

PairNoText(c) ==
  /\ calls[c].pc = "probe"
  /\ IF calls[c].attempt < max_retries - 1
     THEN \E user_agent \in get_random_user_agent :
            calls' = PairContinue(
                       PairProbed(
                         Write(calls, c, [calls[c].opts EXCEPT !.user_agent = user_agent]),
                         c, "no_text"), c)
     ELSE calls' = PairContinue(PairProbed(calls, c, "no_text"), c)
  /\ UNCHANGED << routeVars, identityVars, fnVars >>

PairBlocked(c) ==
  /\ calls[c].pc = "probe"
  /\ IF calls[c].attempt < max_retries - 1
     THEN calls' = PairContinue(
                     PairProbed(Write(calls, c, RotateOnBlock(calls[c].opts)),
                                c, "blocked"), c)
     ELSE calls' = PairContinue(PairProbed(calls, c, "blocked"), c)
  /\ UNCHANGED << routeVars, identityVars, fnVars >>

\* "if not info", another DownloadError, or any other exception.
PairFailed(c) ==
  /\ calls[c].pc = "probe"
  /\ \E outcome \in {"none", "download_error", "exception"} :
       calls' = PairContinue(PairProbed(calls, c, outcome), c)
  /\ UNCHANGED << routeVars, identityVars, fnVars >>

NextPair ==
  \E c \in CallIds :
    \/ PairStart(c)
    \/ PairText(c)
    \/ PairNoText(c)
    \/ PairBlocked(c)
    \/ PairFailed(c)

SpecPair == InitPair /\ [][NextPair]_vars

\* ---------------------------------------------------------------- properties
Returned == pc \in {"returned", "responded"}

\* A track is a CaptionTrack of the catalog when it has a delivery handle.
Fetchable(subs_list) == \E i \in 1..Len(subs_list) : subs_list[i].url

TracksOf(source_type) ==
  { [lang |-> SubsOf(video, source_type)[i].lang, source_type |-> source_type] :
      i \in { k \in 1..Len(SubsOf(video, source_type)) :
                Fetchable(SubsOf(video, source_type)[k].subs) } }

Tracks == TracksOf("manual") \cup TracksOf("auto")

SameTrack(e, t) == e.lang = t.lang /\ e.source_type = t.source_type

\* The first fetch of an attempt.
FirstOfAttempt(i) == i = 1 \/ fetchLog[i - 1].attempt # fetchLog[i].attempt

\* The ladder rank of a track: en manual, en auto, ru manual, ru auto, the
\* detected language manual, auto, and 7 for any other track.
Half(source_type) == IF source_type = "manual" THEN 0 ELSE 1
TrackRank(lang, source_type, detected) ==
  IF lang = "en" THEN 1 + Half(source_type)
  ELSE IF lang = "ru" THEN 3 + Half(source_type)
  ELSE IF detected # None /\ lang = detected THEN 5 + Half(source_type)
  ELSE 7
\* The ladder rank of the step through which a fetch was made.
StepRank(e) == IF e.step = 4 THEN 7 ELSE 2 * e.step - 1 + Half(e.source_type)

\* C1: within one catalog the fetches follow the ladder en manual, en auto,
\* ru manual, ru auto, detected manual, detected auto (no detected step when
\* the detected language is en or ru), then the any-language step: a fetch
\* made through steps 1-3 is of the track of that rank, every track of the
\* catalog of an earlier rank was fetched before it in the same attempt and
\* failed, no fetch follows a passing one in its attempt, and the result is
\* the track of the passing fetch.
C1_LadderOrder ==
  /\ \A i \in 1..Len(fetchLog) :
       LET e == fetchLog[i]
       IN  /\ e.step < 4 => StepRank(e) = TrackRank(e.lang, e.source_type, e.video_lang)
           /\ e.step = 3 => e.video_lang \notin {"en", "ru", None}
           /\ \A t \in Tracks :
                TrackRank(t.lang, t.source_type, e.video_lang) < StepRank(e)
                  => \E j \in 1..(i - 1) :
                       /\ fetchLog[j].attempt = e.attempt
                       /\ SameTrack(fetchLog[j], t)
                       /\ ~fetchLog[j].ok
           /\ \A j \in 1..(i - 1) : fetchLog[j].attempt = e.attempt => ~fetchLog[j].ok
  /\ ~result.none =>
       /\ fetchLog # <<>>
       /\ fetchLog[Len(fetchLog)].ok
       /\ result.language = fetchLog[Len(fetchLog)].lang
       /\ result.source_type = fetchLog[Len(fetchLog)].source_type

\* A transcript obtained through the detected-language step after the en
\* step failed.
C1_Witness ==
  /\ ~result.none
  /\ Len(fetchLog) >= 2
  /\ fetchLog[Len(fetchLog)].step = 3
  /\ fetchLog[Len(fetchLog) - 1].step = 1
  /\ fetchLog[Len(fetchLog) - 1].attempt = fetchLog[Len(fetchLog)].attempt

HasEnManual == [lang |-> "en", source_type |-> "manual"] \in Tracks

\* C2: when the catalog has an en manual track, the first fetch of every
\* attempt is that track, and when that fetch passes the gate the call
\* returns (en, manual), whatever else the catalog holds.
C2_EnManualFirst ==
  HasEnManual =>
    \A i \in 1..Len(fetchLog) :
      FirstOfAttempt(i) =>
        /\ fetchLog[i].lang = "en"
        /\ fetchLog[i].source_type = "manual"
        /\ fetchLog[i].ok =>
             /\ Returned
             /\ ~result.none
             /\ result.language = "en"
             /\ result.source_type = "manual"
             /\ result.subtitles # None

\* The catalog {en manual, ru auto}, en manual returned.
C2_Witness ==
  /\ Keys(video.subtitles) = <<"en">>
  /\ Keys(video.automatic_captions) = <<"ru">>
  /\ ~result.none
  /\ result.language = "en"
  /\ result.source_type = "manual"

\* The catalog whose only track is de auto, probed in the current attempt
\* with a title detected as fr.
OnlyDeAuto ==
  /\ video.subtitles = <<>>
  /\ Keys(video.automatic_captions) = <<"de">>
  /\ Tracks # {}
  /\ probeLog # <<>>
  /\ probeLog[Len(probeLog)] = "info"
  /\ pc # "metadata"
  /\ video_lang = "fr"

\* C3: with only a de auto track and a title detected as fr, every fetch is
\* of (de, auto) through the any-language step, the attempt does fetch it,
\* and it is the result when its fetch passes the gate.
C3_AnyLanguageFallback ==
  OnlyDeAuto =>
    /\ \A i \in 1..Len(fetchLog) :
         fetchLog[i].attempt = attempt =>
           /\ fetchLog[i].lang = "de"
           /\ fetchLog[i].source_type = "auto"
           /\ fetchLog[i].step = 4
    /\ Returned =>
         /\ \E i \in 1..Len(fetchLog) : fetchLog[i].attempt = attempt
         /\ result.none <=> ~fetchLog[Len(fetchLog)].ok
         /\ ~result.none => result.language = "de" /\ result.source_type = "auto"

C3_Witness ==
  /\ OnlyDeAuto
  /\ ~result.none
  /\ result.language = "de"
  /\ result.source_type = "auto"
  /\ fetchLog[Len(fetchLog)].step = 4

\* C4: a fetch whose text passes the gate is the last fetch of the call, no
\* catalog probe follows it, and the call has returned its text.
C4_ShortCircuit ==
  \A i \in 1..Len(fetchLog) :
    fetchLog[i].ok =>
      /\ i = Len(fetchLog)
      /\ Len(probeLog) = fetchLog[i].attempt + 1
      /\ Returned
      /\ ~result.none
      /\ result.subtitles # None
      /\ result.language = fetchLog[i].lang
      /\ result.source_type = fetchLog[i].source_type

\* A transcript returned in the first attempt while the ladder still had a
\* later track to try.
C4_Witness ==
  /\ ~result.none
  /\ attempt = 0
  /\ NextPos(info, video_lang, pos + 1) # 0
  /\ PosLang(info, Ladder(video_lang)[NextPos(info, video_lang, pos + 1)]) # result.language

\* C5: a successful result carries a text longer than MinLen characters, and
\* the route never answers "no subtitles" for a result that is not None.
C5_QualityGate ==
  /\ ~result.none =>
       /\ result.subtitles # None
       /\ result.subtitles # ""
       /\ Len(result.subtitles) > MinLen
  /\ response.sent => response.error # "no_subtitles"
  /\ response.sent /\ response.success => ~result.none

\* A returned text of exactly MinLen + 1 characters.
C5_Witness ==
  /\ ~result.none
  /\ Len(result.subtitles) = MinLen + 1
  /\ response.success

\* C6: when the call returns failure after its last probe delivered the
\* catalog, every track of the catalog was fetched during that attempt.
C6_FailureOnlyAfterExhaustion ==
  (Returned /\ result.none /\ probeLog[Len(probeLog)] = "info") =>
    \A t \in Tracks :
      \E i \in 1..Len(fetchLog) :
        fetchLog[i].attempt = attempt /\ SameTrack(fetchLog[i], t)

\* The serializations with a URL that the track of a fetch offers besides the
\* fetched one.
OtherFormats(e) ==
  LET subs_list == Get(SubsOf(video, e.source_type), e.lang)
  IN  { subs_list[k].ext : k \in { n \in 1..Len(subs_list) : subs_list[n].url } } \ {e.ext}

\* C7: when the fetch of a track's preferred serialization fails and the
\* track offers another serialization, the next fetch is of that track in
\* another serialization.
C7_FormatAdvance ==
  \A i \in 1..Len(fetchLog) :
    ( /\ ~fetchLog[i].ok
      /\ OtherFormats(fetchLog[i]) # {}
      /\ \A x \in OtherFormats(fetchLog[i]) : Score(fetchLog[i].ext) < Score(x)
      /\ i < Len(fetchLog) \/ Returned \/ attempt > fetchLog[i].attempt )
    => /\ i < Len(fetchLog)
       /\ fetchLog[i + 1].attempt = fetchLog[i].attempt
       /\ SameTrack(fetchLog[i + 1], fetchLog[i])
       /\ fetchLog[i + 1].ext \in OtherFormats(fetchLog[i])

\* C8: within one call no (language, provenance, format) is fetched twice.
C8_NoRefetch ==
  \A i, j \in 1..Len(fetchLog) :
    i < j => ~( /\ SameTrack(fetchLog[i], fetchLog[j])
                /\ fetchLog[i].ext = fetchLog[j].ext )

\* The catalog has exactly one track.
SoleTrack == Cardinality(Tracks) = 1 /\ Len(video.subtitles) + Len(video.automatic_captions) = 1

FetchesOf(a) == { i \in 1..Len(fetchLog) : fetchLog[i].attempt = a }

\* C9: when the first probe delivers a catalog with a single track, that
\* track is fetched at most three times in the first attempt, and the call
\* returns failure only after a second probe was made.
C9_MethodShortCircuit ==
  (SoleTrack /\ probeLog # <<>> /\ probeLog[1] = "info") =>
    /\ Cardinality(FetchesOf(0)) <= 3
    /\ pc \in {"probe", "ladder"} /\ attempt = 0 => result.none
    /\ attempt > 0 =>
         /\ FetchesOf(0) # {}
         /\ \A i \in FetchesOf(0) : ~fetchLog[i].ok
    /\ Returned /\ result.none =>
         /\ attempt = 1
         /\ Len(probeLog) = 2
         /\ FetchesOf(0) # {}

\* The sole track en manual failed three times, and the second probe was made.
C9_Witness ==
  /\ SoleTrack
  /\ probeLog # <<>>
  /\ probeLog[1] = "info"
  /\ Cardinality(FetchesOf(0)) = 3
  /\ Len(probeLog) = 2
  /\ attempt = 1

\* A probe that delivers no track: no info, or neither dict has an entry.
NoTracksAvailable(outcome) ==
  \/ outcome = "none"
  \/ outcome = "info" /\ video.subtitles = <<>> /\ video.automatic_captions = <<>>

\* C10: when every probe delivers no track, nothing is fetched, the call
\* returns None after max_retries probes, and the route answers with one
\* error response.
C10_AllExhausted ==
  (\A i \in 1..Len(probeLog) : NoTracksAvailable(probeLog[i])) =>
    /\ fetchLog = <<>>
    /\ Returned => result.none /\ Len(probeLog) = max_retries
    /\ pc = "responded" =>
         /\ response.sent
         /\ ~response.success
         /\ response.status = 400

C10_Witness ==
  /\ pc = "responded"
  /\ probeLog = <<"info", "none">>
  /\ video.subtitles = <<>>
  /\ video.automatic_captions = <<>>
  /\ ~response.success

\* Every probe of the call ended with the upstream's bot-check refusal.
AllBlocked ==
  /\ Len(probeLog) = max_retries
  /\ \A i \in 1..Len(probeLog) : probeLog[i] = "blocked"

\* C11: a failed call is reported to the caller as "blocked by the upstream"
\* exactly when every one of its probes ended blocked, so that a blocked call
\* can be told apart from one whose probes found nothing or whose fetches
\* failed.
C11_UpstreamBlockedDistinct ==
  (pc = "responded" /\ result.none) =>
    (response.error = "blocked" <=> AllBlocked)

\* C12: when a non-final attempt ends blocked, the probe of the next attempt
\* goes out under a User-Agent different from the blocked probe's, and the
\* new User-Agent is in place before that probe starts.
C12_IdentityRotationOnBlock ==
  /\ \A i \in 1..Len(identityLog) :
       (identityLog[i].outcome = "blocked" /\ i < Len(identityLog)) =>
         identityLog[i + 1].user_agent # identityLog[i].user_agent
  /\ ( /\ ydl_pc = "probe"
       /\ identityLog # <<>>
       /\ identityLog[Len(identityLog)].outcome = "blocked" ) =>
         ydl_opts.user_agent # identityLog[Len(identityLog)].user_agent

C12_Witness ==
  /\ Len(identityLog) = 2
  /\ identityLog[1].outcome = "blocked"
  /\ identityLog[2].user_agent = MobileUserAgent

\* C13: extract_video_id yields no identifier or exactly eleven characters of
\* [0-9A-Za-z_-], whichever pattern matched, so that nothing else is handed
\* to download_subtitles.
C13_ReferenceShape ==
  video_id # NoId =>
    /\ Len(video_id) = IdLen
    /\ \A k \in 1..Len(video_id) : video_id[k] \in IdChars

\* The request names no video: no url, an empty one, or one without identifier.
NoReference(req) ==
  \/ ~req.has_url
  \/ YoutubeUrl(req) = NoUrl
  \/ extract_video_id(YoutubeUrl(req)) = NoId

NothingAcquired ==
  /\ pc \in {"request", "responded"}
  /\ probeLog = <<>>
  /\ metaLog = <<>>
  /\ fetchLog = <<>>

\* C14 as stated: a request without URL, or whose URL yields no identifier,
\* is answered with an error response, and no probe, metadata query or fetch
\* occurs.
C14_FailFastAsStated ==
  NoReference(request) =>
    /\ NothingAcquired
    /\ pc = "responded" => response.sent /\ response.kind = "error"

\* C14, amended: such a request is answered without any probe, metadata query
\* or fetch; the answer is the instruction page for a GET request without url
\* parameter and a 400 error response in every other case.
C14_FailFast ==
  NoReference(request) =>
    /\ NothingAcquired
    /\ pc = "responded" =>
         /\ response.sent
         /\ IF request.method = "GET" /\ (~request.has_url \/ request.url = NoUrl)
            THEN response.kind = "html"
            ELSE response.kind = "error" /\ response.status = 400

C14_Witness ==
  /\ pc = "responded"
  /\ request.has_url
  /\ request.url = PrefixOther \o IdTooShort
  /\ response.kind = "error"
  /\ response.error = "invalid_url"

\* C15: no failure of a probe, of a fetch or of normalization leaves
\* download_subtitles as an exception.  After a failed probe the call is at
\* the next attempt or has returned None; after a failed fetch it is at the
\* next ladder step, at the next attempt, or has returned None; and a call
\* that returned gave either a result with text or None.
C15_Propagation ==
  /\ pc \in {"probe", "metadata", "ladder", "returned", "responded"}
  /\ Returned => (result = NoResult \/ (~result.none /\ result.subtitles \notin {None, ""}))
  /\ \A i \in 1..Len(probeLog) :
       probeLog[i] # "info" =>
         IF i < max_retries
         THEN Len(probeLog) > i \/ (pc = "probe" /\ attempt = i)
         ELSE Returned /\ result.none
  /\ (fetchLog # <<>> /\ ~fetchLog[Len(fetchLog)].ok) =>
       \/ pc = "ladder" /\ attempt = fetchLog[Len(fetchLog)].attempt
       \/ attempt = fetchLog[Len(fetchLog)].attempt + 1
       \/ Returned /\ result.none /\ attempt = max_retries - 1

C15_Witness ==
  /\ pc = "returned"
  /\ result.none
  /\ probeLog = <<"exception", "info">>
  /\ fetchLog # <<>>
  /\ ~fetchLog[Len(fetchLog)].ok

\* The tracks a failing attempt fetches, described without the title: those
\* of a popular language and the first of each dict.
PopularSet == { popular_langs[i] : i \in 1..Len(popular_langs) }
TitleFreeTried ==
  { t \in Tracks :
      \/ t.lang \in PopularSet
      \/ t.lang = SubsOf(video, t.source_type)[1].lang }

FetchedTracks(a) ==
  { [lang |-> fetchLog[i].lang, source_type |-> fetchLog[i].source_type] :
      i \in FetchesOf(a) }

\* Attempt a got a catalog and ended without text.
FailedAttempt(a) ==
  /\ a + 1 <= Len(probeLog)
  /\ probeLog[a + 1] = "info"
  /\ a < attempt \/ (Returned /\ result.none)

\* C16: a failed metadata query gives the placeholders 'Unknown Video' and
\* 'Unknown Author'; the ladder still runs in that attempt; a result of that
\* attempt carries the placeholders; and the tracks an attempt fetches before
\* giving up do not depend on the title, so that the query's failure cannot
\* turn a success into a failure.
C16_MetadataBestEffort ==
  /\ \A k \in 1..Len(metaLog) :
       metaLog[k].failed =>
         LET a == metaLog[k].attempt
         IN  /\ (attempt = a /\ pc = "ladder") =>
                  video_title = "Unknown Video" /\ video_author = "Unknown Author"
             /\ (attempt = a /\ Returned /\ ~result.none) =>
                  result.title = "Unknown Video" /\ result.author = "Unknown Author"
             /\ Tracks # {} => (attempt = a /\ pc = "ladder") \/ FetchesOf(a) # {}
  /\ \A a \in 0..(max_retries - 1) :
       FailedAttempt(a) => FetchedTracks(a) = TitleFreeTried

C16_Witness ==
  /\ pc = "returned"
  /\ ~result.none
  /\ metaLog # <<>>
  /\ metaLog[Len(metaLog)].failed
  /\ metaLog[Len(metaLog)].attempt = attempt
  /\ result.title = "Unknown Video"
  /\ result.author = "Unknown Author"
  /\ result.language = "fr"

\* The place of a format in the order json3, json, srv3, vtt, srt; every
\* other format comes after all of them.
FormatRank(ext) ==
  CASE ext = "json3" -> 1
    [] ext = "json" -> 2
    [] ext = "srv3" -> 3
    [] ext = "vtt" -> 4
    [] ext = "srt" -> 5
    [] OTHER -> 6

WithUrl == { i \in 1..Len(entries) : entries[i].url }

\* C17: the entry fetched has a URL, no entry with a URL has a format earlier
\* in the order, and among those of the same rank it is the first of the
\* list; when no entry has a URL nothing is fetched.
C17_FormatLadder ==
  fn_pc = "output" =>
    IF WithUrl = {}
    THEN chosen.idx = 0
    ELSE /\ chosen.idx \in WithUrl
         /\ \A j \in WithUrl :
              \/ FormatRank(entries[chosen.idx].ext) < FormatRank(entries[j].ext)
              \/ /\ FormatRank(entries[chosen.idx].ext) = FormatRank(entries[j].ext)
                 /\ chosen.idx <= j

C17_Witness ==
  /\ fn_pc = "output"
  /\ entries = <<Entry("json3", FALSE), Entry("srv1", TRUE), Entry("ttml", TRUE)>>
  /\ chosen.idx = 2

\* The texts of a sequence with one space between neighbours.
RECURSIVE Spaced(_)
Spaced(texts) ==
  IF Len(texts) = 0 THEN ""
  ELSE IF Len(texts) = 1 THEN texts[1]
  ELSE Spaced(SubSeq(texts, 1, Len(texts) - 1)) \o " " \o texts[Len(texts)]

\* The fragments of a structured document in source order.
RECURSIVE FragmentsOf(_)
FragmentsOf(events) ==
  IF events = <<>> THEN <<>>
  ELSE FragmentsOf(SubSeq(events, 1, Len(events) - 1)) \o events[Len(events)]

\* Blank fragments, fragments that are one bracketed annotation, and
\* fragments that merely begin with "[" and end with "]".
BlankFragment(f) == f \in {"", " "}
PureAnnotation(f) == f = "[Music]"
BracketEnds(f) == f \in {"[Music]", "[a] b [c]"}

SpokenAsStated(f) == ~BlankFragment(f) /\ ~PureAnnotation(f)
SpokenInCode(f) == ~BlankFragment(f) /\ ~BracketEnds(f)

StructuredCase == fn_pc = "output" /\ doc \in JsonDocs

\* C18 as stated: the normalized text of a structured document is its
\* non-empty fragments in source order, purely bracketed ones dropped, joined
\* by single spaces ("Hello", "[Music]", "world" give "Hello world").
C18_StructuredAsStated ==
  (StructuredCase /\ SelectSeq(FragmentsOf(doc.events), SpokenAsStated) # <<>>) =>
    cleaned = Spaced(SelectSeq(FragmentsOf(doc.events), SpokenAsStated))

\* C18, amended: that text is built from the fragments that are non-empty
\* and do not both begin with "[" and end with "]", and it is the result only
\* when it is longer than 50 characters; otherwise there is no text.
C18_Structured ==
  StructuredCase =>
    LET text == Spaced(SelectSeq(FragmentsOf(doc.events), SpokenInCode))
    IN  cleaned = IF Len(text) > MinLen THEN text ELSE None

C18_Witness ==
  /\ fn_pc = "output"
  /\ doc.valid
  /\ doc.events = << <<L25>>, <<"[Music]">>, <<L25>> >>
  /\ cleaned = L25 \o " " \o L25

\* The dialogue lines of a line-oriented document and their content.
IsDialogue(line) == line \in {L25, L24, Tagged}
DialogueText(line) == IF line = Tagged THEN L25 ELSE line
DialogueOf(lines) ==
  LET d == SelectSeq(lines, IsDialogue)
  IN  [i \in 1..Len(d) |-> DialogueText(d[i])]

LineCase == fn_pc = "output" /\ doc \in LineDocs

\* C19: for a line-oriented document of dialogue lines among timing lines,
\* sequence numbers and blank lines, the normalized text, when it passes the
\* gate, is exactly the dialogue lines' content in order with single spaces,
\* and there is no text exactly when that content fails the gate.
C19_LineRoundTrip ==
  LineCase =>
    /\ cleaned \in {None, Spaced(DialogueOf(doc.lines))}
    /\ cleaned = None <=> Len(Spaced(DialogueOf(doc.lines))) <= MinLen

C19_Witness ==
  /\ fn_pc = "output"
  /\ doc.lines = <<"1", TimeLine, L25, Tagged>>
  /\ cleaned = L25 \o " " \o L25

\* A json3 track, or a body that opens like JSON, that cannot be read as
\* caption JSON and is no subtitle file either.
Malformed ==
  /\ doc \in {Garbage, GarbageShort, WrongShape, ErrorPage}
  /\ doc_ext = "json3" \/ doc.brace
  /\ ~doc.valid

\* C20: a malformed document gives no text, whatever its length.
C20_MalformedRejected ==
  (fn_pc = "output" /\ Malformed) => cleaned = None

\* The words of a line once its tags are gone; a line of an index, a time
\* range or nothing but blanks or markup has none.
WordsOf(line) ==
  CASE line \in {L25, L24, Banner} -> <<line>>
    [] line = Tagged -> <<L25>>
    [] line = Wide -> <<"abcdefghijkl", "mnopqrstuvwx">>
    [] line = NoteLine -> <<"NOTE", "made", "by", "hand">>
    [] OTHER -> <<>>

RECURSIVE WordsOfLines(_)
WordsOfLines(lines) ==
  IF lines = <<>> THEN <<>>
  ELSE WordsOfLines(SubSeq(lines, 1, Len(lines) - 1)) \o WordsOf(lines[Len(lines)])

\* C21: a text returned for a line-oriented document is the words of its
\* lines with exactly one space between neighbours: it holds no markup tag
\* and no two whitespace characters in a row, also when a line has several
\* inner spaces or is empty once its tags are stripped.
C21_WhitespaceAndMarkup ==
  (fn_pc = "output" /\ doc \in LineDocs \cup MarkupDocs /\ cleaned # None) =>
    cleaned = Spaced(WordsOfLines(doc.lines))

\* C22: a banner line and NOTE lines of a WebVTT document are absent from the
\* text; only its dialogue lines contribute to it.
C22_BannerAndNotes ==
  (fn_pc = "output" /\ doc = VttDoc) =>
    cleaned \in {None, Spaced(DialogueOf(doc.lines))}

\* The k-th fetch of attempt a (the fetches of attempt 0 come first).
NthFetch(a, k) == IF a = 0 THEN k ELSE Cardinality(FetchesOf(0)) + k

SameTrial(e, f) ==
  /\ e.step = f.step
  /\ e.lang = f.lang
  /\ e.source_type = f.source_type
  /\ e.ext = f.ext

AloneAfter(f) ==
  CASE f.last.outcome = "blocked" ->
         f.opts.user_agent = MobileUserAgent /\ f.opts.referer = "embed"
    [] f.last.outcome = "no_text" ->
         f.opts.user_agent \in get_random_user_agent /\ f.opts.referer = "watch"
    [] OTHER ->
         f.opts.user_agent = f.last.user_agent /\ f.opts.referer = "watch"

\* C24: with the steps of two calls interleaved, no call ever probes with
\* options another call has written; its client list is the one its own
\* method gives; its attempt counter counts its own probes; and at its second
\* probe it holds the options it would hold had it run alone.
C24_Isolation ==
  \A c \in CallIds :
    /\ calls[c].seen \subseteq {c}
    /\ calls[c].pc # "start" =>
         calls[c].opts.player_client = player_client(calls[c].auth_method)
    /\ calls[c].attempt = 0 => (calls[c].last = NoProbe \/ calls[c].pc = "returned")
    /\ (calls[c].pc = "probe" /\ calls[c].attempt = 1) =>
         /\ calls[c].last # NoProbe
         /\ AloneAfter(calls[c])

C24_Witness ==
  /\ calls["a"].pc = "probe"
  /\ calls["a"].attempt = 1
  /\ calls["a"].last.outcome = "blocked"
  /\ calls["b"].pc = "probe"
  /\ calls["b"].attempt = 1
  /\ calls["b"].last.outcome = "no_text"
  /\ calls["b"].opts.user_agent # calls["b"].last.user_agent
  /\ calls["a"].opts.player_client = <<"android", "web", "ios", "tv">>

\* The words of the title under test, and the tests in the claimed order.
TitleHas(words) ==
  \E ws \in TitleWordSeqs :
    /\ Spaced(ws) = fn_title
    /\ \E i \in 1..Len(ws) : ws[i] \in words

FirstMatch(otherwise) ==
  IF fn_title = "" THEN None
  ELSE IF TitleHas({"U+043C U+0438 U+0440"}) THEN "ru"
  ELSE IF TitleHas({"fU+00FCr"}) THEN "de"
  ELSE IF TitleHas({"les"}) THEN "fr"
  ELSE IF TitleHas({"el", "la"}) THEN "es"
  ELSE IF TitleHas({"o"}) THEN "pt"
  ELSE IF TitleHas({"il"}) THEN "it"
  ELSE otherwise

\* C25 as stated: the tests are applied in the order Cyrillic, German,
\* French, Spanish, Portuguese, Italian, the first match wins, and there is
\* no guess when none matches.
C25_ClassifierAsStated ==
  fn_pc = "output" => fn_lang = FirstMatch(None)

\* C25, amended: the same order with the first match winning; a non-empty
\* title that matches no test is classified "en", and only an empty title
\* gets no guess.
C25_Classifier ==
  fn_pc = "output" => fn_lang = FirstMatch("en")

C25_Witness ==
  /\ fn_pc = "output"
  /\ fn_title = "il la"
  /\ fn_lang = "es"

\* The longest ladder of one attempt, and an upper bound on the number of
\* steps the call still has to take: the attempts left, each worth a probe,
\* the metadata query and the whole ladder, then the position in the current
\* attempt.
LadderLen == Len(Ladder("fr"))

StepsLeft ==
  CASE pc = "responded" -> 0
    [] pc = "returned" -> 1
    [] OTHER ->
         2 + (max_retries - 1 - attempt) * (LadderLen + 3)
           + (CASE pc = "probe" -> LadderLen + 2
                [] pc = "metadata" -> LadderLen + 1
                [] OTHER -> LadderLen - pos)

ProbeOutcomes == {"info", "none", "blocked", "download_error", "exception"}

\* C26: a call makes at most max_retries catalog probes, whatever the
\* outcome of each; a call that has returned gave exactly one of a result
\* with text and the failure value, and a block signal on the last attempt
\* is a return of the failure value; every step of the call strictly lowers
\* a non-negative count of the steps left, so the call returns after
\* finitely many steps.
C26_TerminationAndProbeBound ==
  /\ [](/\ Len(probeLog) <= max_retries
        /\ \A i \in 1..Len(probeLog) : probeLog[i] \in ProbeOutcomes
        /\ attempt \in 0..(max_retries - 1)
        /\ StepsLeft >= 0
        /\ ~Returned => result = NoResult
        /\ Returned => (result = NoResult) # (~result.none /\ result.subtitles # None)
        /\ (Len(probeLog) = max_retries /\ probeLog[max_retries] # "info") =>
             Returned /\ result = NoResult)
  /\ [][StepsLeft' < StepsLeft]_vars

\* Both probes ended with the block signal and the call returned failure.
C26_Witness ==
  /\ pc = "returned"
  /\ probeLog = << "blocked", "blocked" >>
  /\ result = NoResult
  /\ fetchLog = << >>

\* C27: the priority named in a successful response is the ladder step
\* through which the transcript of the response was obtained.
C27_PriorityMatchesStep ==
  (pc = "responded" /\ response.success) =>
    /\ fetchLog # << >>
    /\ fetchLog[Len(fetchLog)].ok
    /\ response.priority_used = fetchLog[Len(fetchLog)].step

\* C28: when a non-final attempt probed the catalog and found no acceptable
\* transcript, the probe of the next attempt goes out under a User-Agent
\* different from the one of that attempt.
C28_UserAgentChangeAfterNoText ==
  \A i \in 1..Len(identityLog) :
    (identityLog[i].outcome = "no_text" /\ i < Len(identityLog)) =>
      identityLog[i + 1].user_agent # identityLog[i].user_agent

\* A token is available: OAUTH_TOKEN is set, or the token file holds one.
TokenAvailable == store.env_token \/ store.token_file = "token"

\* C29: the call has exactly one access method, selected before the first
\* attempt: OAuth when a token is available, otherwise Cookies when the
\* cookies file exists, otherwise None.  No attempt changes the method or
\* what was configured for it, a result carries that method, and no step of
\* the call changes the token or cookie store.
C29_SingleAccessMethod ==
  /\ [](/\ auth_method \in {"OAuth", "Cookies", "None"}
        /\ auth_method = "OAuth" <=> TokenAvailable
        /\ auth_method = "Cookies" <=> (~TokenAvailable /\ store.cookies_file)
        /\ ydl_opts.player_client =
             (IF auth_method = "None" THEN <<"android", "web", "ios", "tv">>
                                      ELSE <<"android", "web">>)
        /\ ~ydl_result.none => ydl_result.auth_method = auth_method)
  /\ [][store' = store /\ auth_method' = auth_method]_vars

\* A call that found a blank token file and a cookies file, was refused on
\* its first attempt and returned a result on the second.
C29_Witness ==
  /\ ydl_pc = "returned"
  /\ ~ydl_result.none
  /\ Len(identityLog) = 2
  /\ identityLog[1].outcome = "blocked"
  /\ store = [env_token |-> FALSE, token_file |-> "blank", cookies_file |-> TRUE]
  /\ ydl_result.auth_method = "Cookies"

\* C30: a request answered with an error response got a single error
\* classification with success false and status 400 and left no new archive
\* in the artifact folder; an archive exists only after download_subtitles
\* returned a result whose text passed the quality gate.
C30_FailureLeavesNoArtifact ==
  /\ (pc = "responded" /\ response.kind = "error") =>
       /\ ~response.success
       /\ response.status = 400
       /\ response.error # None
       /\ archives = 0
  /\ archives > 0 =>
       /\ pc = "responded"
       /\ ~result.none
       /\ result.subtitles # None
       /\ Len(result.subtitles) > MinLen

====
